---- MODULE Spec2Model ----
(***************************************************************************)
(* The eBPF instrumenter of pkg/internal/ebpf/instrumenter.go: the probe   *)
(* attacher (goprobes, kprobes, uprobes, sockfilters), the handles it      *)
(* keeps in instrumenter.closables, the closer sink and the                *)
(* instrumented-library registry of each Tracer it is called with, the raw *)
(* sockets it opens, and the byte-order helper htons.                      *)
(*                                                                         *)
(* One action is one call of an entry point.  A call runs to completion;   *)
(* what it did is appended to hist as a record holding the sequence of     *)
(* the calls it made to its collaborators (the attachment primitive, the   *)
(* Tracer, the file system), in order.                                     *)
(***************************************************************************)
EXTENDS Integers, Sequences, FiniteSets, TLC

\* Bounds of the model.
MaxCalls == 2
MaxReturns == 2

VARIABLES
    offsets,           \* instrumenter.offsets.Funcs: function name -> offset set
    exe,               \* instrumenter.exe: the opened main executable
    closables,         \* instrumenter.closables: handles, in creation order
    tracer,            \* per Tracer: the catalogs GoProbes(), KProbes(), UProbes()
    closers,           \* per Tracer: every handle passed to AddCloser, in order
    instrumentedLibs,  \* per Tracer: the inodes given to RecordInstrumentedLib
    procfs,            \* per pid: what processMaps and os.Stat answer
    links,             \* every release handle created (an attachment of the primitive,
                       \* or a Filter owning a socket); a handle is its index
    sockets,           \* every open raw socket; a file descriptor is its index
    byteOrder,         \* the byte order of the host, "little" or "big"
    word,              \* the 16-bit value given to htons
    swaps,             \* the applications of htons made so far, argument and result
    hist               \* the calls made so far, each with its trace

vars == <<offsets, exe, closables, tracer, closers, instrumentedLibs, procfs, links,
          sockets, byteOrder, word, swaps, hist>>

----------------------------------------------------------------------------
\* Values

Entities == {"A", "B"}
Pids == {1, 2}

Nil == <<>>                 \* a nil error
NilProg == "nil"            \* a nil *ebpf.Program

\* fmt.Errorf("<msg>: %w", err) and fmt.Errorf("<msg> %q: %w", name, err)
Errorf(msg, err) == <<msg>> \o err
ErrorfQ(msg, name, err) == <<msg, name>> \o err

NoPath == [pid |-> 0, file |-> "", lo |-> 0, hi |-> 0]
KernelImage == [pid |-> 0, file |-> "kernel", lo |-> 0, hi |-> 0]
MainImage == [pid |-> 0, file |-> "i.exe", lo |-> 0, hi |-> 0]

Range(s) == {s[k] : k \in DOMAIN s}
Perms(S) == {s \in [1..Cardinality(S) -> S] : \A a, b \in DOMAIN s : s[a] = s[b] => a = b}

FunctionPrograms(s, e, r) == [Start |-> s, End |-> e, Required |-> r]

\* One entry of a call's trace.
Event(t, name, target, addr, ok, hs, ino) ==
    [t |-> t, name |-> name, target |-> target, addr |-> addr, ok |-> ok, hs |-> hs, ino |-> ino]

Log(m, e) == [m EXCEPT !.ev = Append(@, e)]

----------------------------------------------------------------------------
\* Collaborators

\* The attachment primitive (link.Executable.Uprobe/Uretprobe, link.Kprobe/
\* Kretprobe): the n-th fallible call of the running call fails iff n is in
\* m.fail; on success a new live link exists and its handle is returned in
\* m.up.
Attach(kind, target, symbol, prog, address, m) ==
    LET k == m.n + 1
        ok == k \notin m.fail
        h == Len(m.links) + 1
    IN [m EXCEPT
          !.n = k,
          !.links = IF ok
                    THEN Append(@, [kind |-> kind, target |-> target, sym |-> symbol,
                                    addr |-> address, prog |-> prog, by |-> m.p])
                    ELSE @,
          !.ev = Append(@, Event(kind, symbol, target, address, ok,
                                 IF ok THEN <<h>> ELSE <<>>, 0)),
          !.up = IF ok THEN h ELSE 0,
          !.err = IF ok THEN Nil ELSE <<"link">>]

\* Tracer.AddCloser(c ...io.Closer): the sink receives the batch.
AddCloser(p, hs, m) ==
    [m EXCEPT !.closers[p] = @ \o hs,
              !.ev = Append(@, Event("AddCloser", "", NoPath, 0, TRUE, hs, 0))]

\* Tracer.AlreadyInstrumentedLib(ino)
AlreadyInstrumentedLib(p, ino, m) == ino \in m.libs[p]

\* Tracer.RecordInstrumentedLib(ino)
RecordInstrumentedLib(p, ino, m) ==
    [m EXCEPT !.libs[p] = @ \cup {ino},
              !.ev = Append(@, Event("RecordInstrumentedLib", "", NoPath, 0, TRUE, <<>>, ino))]

----------------------------------------------------------------------------
\* In the operators below m is the running call.  A step leaves a call that
\* has already failed (m.err # Nil) as it is: that is the code's
\* "if err != nil { return ... }" after the step before.

\* What the code does with the result a of an attachment, (up, err):
\*   if err != nil { return fmt.Errorf(msg, err) }
\*   i.closables = append(i.closables, up)
Closable(msg, a) ==
    IF a.err # Nil
    THEN [a EXCEPT !.err = Errorf(msg, a.err)]
    ELSE [a EXCEPT !.closables = Append(@, a.up)]

----------------------------------------------------------------------------
\* goprobes

\* A mutant of goprobeReturns: the return program at the first return site only.
goprobeReturns_FirstOnly(probe, rets, m) ==
    IF rets = <<>> \/ m.err # Nil THEN m
    ELSE Closable("setting uretprobe",
                  Attach("Uprobe", exe, "", probe.Programs.End, Head(rets), m))

RECURSIVE goprobeReturns(_, _, _)
goprobeReturns(probe, rets, m) ==
    IF rets = <<>> \/ m.err # Nil THEN m
    ELSE goprobeReturns(probe, Tail(rets),
                        Closable("setting uretprobe",
                                 Attach("Uprobe", exe, "", probe.Programs.End, Head(rets), m)))

goprobeStart(probe, m) ==
    IF probe.Programs.Start # NilProg
    THEN Closable("setting uprobe",
                  Attach("Uprobe", exe, "", probe.Programs.Start, probe.Offsets.Start, m))
    ELSE m

goprobeEnd(probe, m) ==
    IF m.err # Nil THEN m
    ELSE IF probe.Programs.End # NilProg
         THEN goprobeReturns(probe, probe.Offsets.Returns, m)
         ELSE m

goprobe(probe, m) == goprobeEnd(probe, goprobeStart(probe, m))

\* A mutant of goprobesAfter: a function that cannot be attached is passed over.
goprobesAfter_PassOver(p, funcName, g) ==
    AddCloser(p, g.closables, [g EXCEPT !.err = Nil])

\* After i.goprobe in the loop of goprobes: g is what it returned.
goprobesAfter(p, funcName, g) ==
    IF g.err # Nil
    THEN [g EXCEPT !.err = ErrorfQ("instrumenting function", funcName, g.err)]
    ELSE AddCloser(p, g.closables, g)

\* A mutant of goprobesBody: a function that already has a uprobe at its
\* entry offset is ignored.
goprobesBody_Dedup(p, funcName, m) ==
    IF \/ funcName \notin DOMAIN offsets
       \/ \E h \in DOMAIN m.links :
             m.links[h].target = exe /\ m.links[h].addr = offsets[funcName].Start
    THEN Log(m, Event("ignoring function", funcName, NoPath, 0, TRUE, <<>>, 0))
    ELSE goprobesAfter(p, funcName,
                       goprobe([Offsets |-> offsets[funcName],
                                Programs |-> tracer[p].GoProbes[funcName]],
                               Log(m, Event("going to instrument function", funcName,
                                            NoPath, 0, TRUE, <<>>, 0))))

\* A mutant of goprobesBody: a function without offsets is an error.
goprobesBody_AbsentFatal(p, funcName, m) ==
    IF funcName \notin DOMAIN offsets
    THEN [m EXCEPT !.err = ErrorfQ("instrumenting function", funcName, <<"no offsets">>)]
    ELSE goprobesAfter(p, funcName,
                       goprobe([Offsets |-> offsets[funcName],
                                Programs |-> tracer[p].GoProbes[funcName]],
                               Log(m, Event("going to instrument function", funcName,
                                            NoPath, 0, TRUE, <<>>, 0))))

\* One iteration of the loop of goprobes.
goprobesBody(p, funcName, m) ==
    IF funcName \notin DOMAIN offsets
    THEN Log(m, Event("ignoring function", funcName, NoPath, 0, TRUE, <<>>, 0))
    ELSE goprobesAfter(p, funcName,
                       goprobe([Offsets |-> offsets[funcName],
                                Programs |-> tracer[p].GoProbes[funcName]],
                               Log(m, Event("going to instrument function", funcName,
                                            NoPath, 0, TRUE, <<>>, 0))))

RECURSIVE goprobes(_, _, _)
goprobes(p, order, m) ==
    IF order = <<>> \/ m.err # Nil THEN m
    ELSE goprobes(p, Tail(order), goprobesBody(p, Head(order), m))

----------------------------------------------------------------------------
\* kprobes

kprobeStart(funcName, programs, m) ==
    IF programs.Start # NilProg
    THEN Closable("setting kprobe",
                  Attach("Kprobe", KernelImage, funcName, programs.Start, 0, m))
    ELSE m

kprobeEnd(funcName, programs, m) ==
    IF m.err # Nil THEN m
    ELSE IF programs.End # NilProg
         THEN Closable("setting kretprobe",
                       Attach("Kretprobe", KernelImage, funcName, programs.End, 0, m))
         ELSE m

kprobe(funcName, programs, m) ==
    kprobeEnd(funcName, programs, kprobeStart(funcName, programs, m))

\* After i.kprobe in the loop of kprobes: k is what it returned.
kprobesAfter(p, kfunc, k) ==
    IF k.err # Nil
    THEN [k EXCEPT !.err = ErrorfQ("instrumenting function", kfunc, k.err)]
    ELSE AddCloser(p, k.closables, k)

\* One iteration of the loop of kprobes.
kprobesBody(p, kfunc, m) ==
    kprobesAfter(p, kfunc,
                 kprobe(kfunc, tracer[p].KProbes[kfunc],
                        Log(m, Event("going to add kprobe to function", kfunc,
                                     NoPath, 0, TRUE, <<>>, 0))))

RECURSIVE kprobes(_, _, _)
kprobes(p, order, m) ==
    IF order = <<>> \/ m.err # Nil THEN m
    ELSE kprobes(p, Tail(order), kprobesBody(p, Head(order), m))

----------------------------------------------------------------------------
\* uprobes

\* processMaps(pid) = exec.FindLibMaps(pid): an error, or the mappings.
processMaps(pid) == procfs[pid]

\* A nil *procfs.ProcMap
NilMap == [Pathname |-> "", StartAddr |-> 0, EndAddr |-> 0, statOk |-> FALSE, Ino |-> 0]

\* strings.Contains(pathname, "/" + name)
PathContains(pathname, name) ==
    <<pathname, name>> \in {<<"/usr/lib/libssl.so.3", "libssl.so">>,
                            <<"/usr/lib/libcrypto.so.3", "libcrypto.so">>}

\* exec.LibPath(name, maps): the first mapping whose path holds the name, or nil.
RECURSIVE LibPath(_, _)
LibPath(name, maps) ==
    IF maps = <<>> THEN NilMap
    ELSE IF PathContains(Head(maps).Pathname, name) THEN Head(maps)
    ELSE LibPath(name, Tail(maps))

\* link.OpenExecutable(instrPath): the n-th fallible call fails iff n is in m.fail.
OpenExecutable(instrPath, m) ==
    [m EXCEPT !.n = @ + 1,
              !.ev = Append(@, Event("OpenExecutable", "", instrPath, 0,
                                     (m.n + 1) \notin m.fail, <<>>, 0)),
              !.err = IF (m.n + 1) \notin m.fail THEN Nil ELSE <<"open">>]

\* A mutant of uprobeStart: the entry program is attached without the nil check.
uprobeStart_NoNilCheck(funcName, libExe, probe, m) ==
    Closable("setting uprobe", Attach("Uprobe", libExe, funcName, probe.Start, 0, m))

uprobeStart(funcName, libExe, probe, m) ==
    IF probe.Start # NilProg
    THEN Closable("setting uprobe", Attach("Uprobe", libExe, funcName, probe.Start, 0, m))
    ELSE m

uprobeEnd(funcName, libExe, probe, m) ==
    IF m.err # Nil THEN m
    ELSE IF probe.End # NilProg
         THEN Closable("setting uretprobe",
                       Attach("Uretprobe", libExe, funcName, probe.End, 0, m))
         ELSE m

uprobe(funcName, libExe, probe, m) ==
    uprobeEnd(funcName, libExe, probe, uprobeStart(funcName, libExe, probe, m))

\* A mutant of uprobesAfter: the failure of an optional pair is fatal too.
uprobesAfter_AllFatal(p, funcName, libExe, funcPrograms, u) ==
    IF u.err # Nil
    THEN [u EXCEPT !.err = ErrorfQ("instrumenting function", funcName, u.err)]
    ELSE AddCloser(p, u.closables, u)

\* After i.uprobe in the inner loop of uprobes: u is what it returned.
uprobesAfter(p, funcName, libExe, funcPrograms, u) ==
    IF u.err # Nil
    THEN IF funcPrograms.Required
         THEN [u EXCEPT !.err = ErrorfQ("instrumenting function", funcName, u.err)]
         ELSE AddCloser(p, u.closables,
                        Log([u EXCEPT !.err = Nil],
                            Event("error instrumenting uprobe", funcName,
                                  libExe, 0, TRUE, <<>>, 0)))
    ELSE AddCloser(p, u.closables, u)

\* One iteration of the inner loop of uprobes (one function of a library).
uprobesFunc(p, funcName, libExe, funcPrograms, m) ==
    uprobesAfter(p, funcName, libExe, funcPrograms,
                 uprobe(funcName, libExe, funcPrograms,
                        Log(m, Event("going to instrument function", funcName,
                                     libExe, 0, TRUE, <<>>, 0))))

\* The inner loop, entered unless link.OpenExecutable failed.
RECURSIVE uprobesFuncs(_, _, _, _, _)
uprobesFuncs(p, pMap, order, libExe, m) ==
    IF order = <<>> \/ m.err # Nil THEN m
    ELSE uprobesFuncs(p, pMap, Tail(order), libExe,
                      uprobesFunc(p, Head(order), libExe, pMap[Head(order)], m))

\* A mutant of uprobesRecord: the inode is never recorded.
uprobesRecord_Never(p, m) == m

\* The end of the body of the outer loop: if ino != 0 { p.RecordInstrumentedLib(ino) }
uprobesRecord(p, m) ==
    IF m.err # Nil THEN m
    ELSE IF m.ino # 0 THEN RecordInstrumentedLib(p, m.ino, m) ELSE m

\* A mutant of uprobesImage: the inode is recorded before the functions are
\* attempted.
uprobesImage_RecordFirst(p, pMap, order, m) ==
    IF m.skip THEN m
    ELSE uprobesFuncs(p, pMap, order, m.instrPath,
                      uprobesRecord(p, OpenExecutable(m.instrPath, m)))

\* A mutant of uprobesImage: the error of link.OpenExecutable is dropped.
uprobesImage_OpenUnchecked(p, pMap, order, m) ==
    IF m.skip THEN m
    ELSE uprobesRecord(p, uprobesFuncs(p, pMap, order, m.instrPath,
                                       [OpenExecutable(m.instrPath, m) EXCEPT !.err = Nil]))

\* From link.OpenExecutable to the end of the body of the outer loop; m.skip
\* is the continue taken before it.
uprobesImage(p, pMap, order, m) ==
    IF m.skip THEN m
    ELSE uprobesRecord(p, uprobesFuncs(p, pMap, order, m.instrPath,
                                       OpenExecutable(m.instrPath, m)))

MapFiles(pid, libMap) ==
    [pid |-> pid, file |-> "map_files", lo |-> libMap.StartAddr, hi |-> libMap.EndAddr]
ProcExe(pid) == [pid |-> pid, file |-> "exe", lo |-> 0, hi |-> 0]

\* A mutant of uprobesTarget: a library already instrumented is not skipped.
uprobesTarget_NoSkip(pid, p, lib, libMap, m) ==
    IF libMap # NilMap
    THEN [Log(m, Event("Stat", lib, MapFiles(pid, libMap), 0, libMap.statOk, <<>>,
                       IF libMap.statOk THEN libMap.Ino ELSE 0))
            EXCEPT !.instrPath = MapFiles(pid, libMap),
                   !.ino = IF libMap.statOk THEN libMap.Ino ELSE 0,
                   !.skip = FALSE]
    ELSE [Log(m, Event("not linked, attempting to instrument executable",
                       lib, ProcExe(pid), 0, TRUE, <<>>, 0))
            EXCEPT !.instrPath = ProcExe(pid), !.ino = 0, !.skip = FALSE]

\* The library is mapped and os.Stat gave its inode: the registry is asked.
uprobesKnownInode(pid, p, lib, libMap, m) ==
    [Log(m, Event("AlreadyInstrumentedLib", lib, MapFiles(pid, libMap), 0,
                  AlreadyInstrumentedLib(p, libMap.Ino, m), <<>>, libMap.Ino))
        EXCEPT !.instrPath = MapFiles(pid, libMap),
               !.ino = IF AlreadyInstrumentedLib(p, libMap.Ino, m) THEN 0 ELSE libMap.Ino,
               !.skip = AlreadyInstrumentedLib(p, libMap.Ino, m)]

\* A mutant of uprobesTarget: the static fallback tracks the inode of the
\* executable like that of a library.
uprobesTarget_TrackExe(pid, p, lib, libMap, m) ==
    IF libMap # NilMap
    THEN IF libMap.statOk
         THEN uprobesKnownInode(pid, p, lib, libMap,
                                Log(m, Event("Stat", lib, MapFiles(pid, libMap), 0, TRUE,
                                             <<>>, libMap.Ino)))
         ELSE [Log(m, Event("Stat", lib, MapFiles(pid, libMap), 0, FALSE, <<>>, 0))
                 EXCEPT !.instrPath = MapFiles(pid, libMap), !.ino = 0, !.skip = FALSE]
    ELSE [uprobesKnownInode(pid, p, lib, Head(processMaps(pid).maps),
                            Log(m, Event("Stat", lib, ProcExe(pid), 0, TRUE, <<>>,
                                         Head(processMaps(pid).maps).Ino)))
            EXCEPT !.instrPath = ProcExe(pid)]

\* The head of the body of the outer loop: the image to open (instrPath), the
\* inode to record (ino), or the continue (skip), for the mapping libMap that
\* exec.LibPath gave.
uprobesTarget(pid, p, lib, libMap, m) ==
    IF libMap # NilMap
    THEN IF libMap.statOk
         THEN uprobesKnownInode(pid, p, lib, libMap,
                                Log(m, Event("Stat", lib, MapFiles(pid, libMap), 0, TRUE,
                                             <<>>, libMap.Ino)))
         ELSE [Log(m, Event("Stat", lib, MapFiles(pid, libMap), 0, FALSE, <<>>, 0))
                 EXCEPT !.instrPath = MapFiles(pid, libMap), !.ino = 0, !.skip = FALSE]
    ELSE [Log(m, Event("not linked, attempting to instrument executable",
                       lib, ProcExe(pid), 0, TRUE, <<>>, 0))
            EXCEPT !.instrPath = ProcExe(pid), !.ino = 0, !.skip = FALSE]

\* One iteration of the outer loop of uprobes (one library).
uprobesLib(pid, p, lib, maps, order, m) ==
    uprobesImage(p, tracer[p].UProbes[lib], order,
                 uprobesTarget(pid, p, lib, LibPath(lib, maps),
                               Log(m, Event("finding library", lib, NoPath, 0, TRUE,
                                            <<>>, 0))))

RECURSIVE uprobesLibs(_, _, _, _, _, _)
uprobesLibs(pid, p, maps, liborder, symorder, m) ==
    IF liborder = <<>> \/ m.err # Nil THEN m
    ELSE uprobesLibs(pid, p, maps, Tail(liborder), symorder,
                     uprobesLib(pid, p, Head(liborder), maps, symorder[Head(liborder)], m))

\* A mutant of uprobesMaps: an empty process map is not told apart.
uprobesMaps_NoEmptyCheck(pid, p, r, liborder, symorder, m) ==
    IF r.err # Nil THEN [m EXCEPT !.err = r.err]
    ELSE uprobesLibs(pid, p, r.maps, liborder, symorder, m)

\* uprobes after processMaps: r is what it returned.
uprobesMaps(pid, p, r, liborder, symorder, m) ==
    IF r.err # Nil THEN [m EXCEPT !.err = r.err]
    ELSE IF Len(r.maps) = 0 THEN m
    ELSE uprobesLibs(pid, p, r.maps, liborder, symorder, m)

uprobes(pid, p, liborder, symorder, m) ==
    uprobesMaps(pid, p, processMaps(pid), liborder, symorder, m)

----------------------------------------------------------------------------
\* htons

Byte == 256                 \* the values of a byte
ETH_P_ALL == 3              \* unix.ETH_P_ALL

\* A uint16 as it lies in the memory of the host, lowest address first.
Store16(v) ==
    IF byteOrder = "little" THEN <<v % Byte, v \div Byte>> ELSE <<v \div Byte, v % Byte>>

\* var a uint16 = 1; return *(*byte)(unsafe.Pointer(&a)) == 1
isLittleEndian == Store16(1)[1] = 1

\* binary.LittleEndian.PutUint16(arr[:], v): arr[0] = byte(v), arr[1] = byte(v >> 8)
PutUint16(v) == <<v % Byte, (v \div Byte) % Byte>>

\* binary.BigEndian.Uint16(arr[:]): uint16(arr[1]) | uint16(arr[0])<<8
Uint16(arr) == arr[1] * Byte + arr[2]

\* A mutant of htons: no conversion on any host.
htons_Identity(a) == a

htons(a) == IF isLittleEndian THEN Uint16(PutUint16(a)) ELSE a

----------------------------------------------------------------------------
\* sockfilters

\* unix.Socket(AF_PACKET, SOCK_RAW, proto): the n-th fallible call of the
\* running call fails iff n is in m.fail; on success a new socket is open and
\* its descriptor is returned in m.fd.
Socket(proto, m) ==
    [m EXCEPT !.n = @ + 1,
              !.socks = IF (m.n + 1) \notin m.fail
                        THEN Append(@, [proto |-> proto, prog |-> NilProg, by |-> m.p])
                        ELSE @,
              !.ev = Append(@, Event("Socket", "", NoPath,
                                     IF (m.n + 1) \notin m.fail THEN Len(m.socks) + 1 ELSE -1,
                                     (m.n + 1) \notin m.fail, <<>>, 0)),
              !.fd = IF (m.n + 1) \notin m.fail THEN Len(m.socks) + 1 ELSE -1,
              !.err = IF (m.n + 1) \notin m.fail THEN Nil ELSE <<"socket">>]

\* syscall.SetsockoptInt(fd, SOL_SOCKET, SO_ATTACH_BPF, filter.FD())
SetsockoptInt(fd, filter, m) ==
    [m EXCEPT !.n = @ + 1,
              !.socks = IF (m.n + 1) \notin m.fail THEN [@ EXCEPT ![fd].prog = filter] ELSE @,
              !.ev = Append(@, Event("SetsockoptInt", filter, NoPath, fd,
                                     (m.n + 1) \notin m.fail, <<>>, 0)),
              !.err = IF (m.n + 1) \notin m.fail THEN Nil ELSE <<"setsockopt">>]

\* &ebpfcommon.Filter{Fd: fd}: a new release handle owning fd, returned in m.up.
Filter(fd, m) ==
    [m EXCEPT !.links = Append(@, [kind |-> "Filter", target |-> NoPath, sym |-> "",
                                   addr |-> fd, prog |-> NilProg, by |-> m.p]),
              !.up = Len(m.links) + 1]

\* What attachSocketFilter returns after SetsockoptInt: o is what it left.
\*   if ssoErr != nil { return -1, ssoErr }
\*   return fd, nil
attachSocketFilterEnd(o) ==
    IF o.err # Nil THEN [o EXCEPT !.fd = -1] ELSE o

\* attachSocketFilter after unix.Socket: s is what it returned.
attachSocketFilterAfter(filter, s) ==
    IF s.err = Nil
    THEN attachSocketFilterEnd(SetsockoptInt(s.fd, filter, s))
    ELSE [s EXCEPT !.fd = -1]

attachSocketFilter(filter, m) ==
    attachSocketFilterAfter(filter, Socket(htons(ETH_P_ALL), m))

\* p.AddCloser(&ebpfcommon.Filter{Fd: fd}): f is the call with the new handle.
sockfiltersClose(p, f) == AddCloser(p, <<f.up>>, f)

\* A mutant of sockfiltersAfter: a filter that cannot be attached is passed over.
sockfiltersAfter_PassOver(p, a) ==
    IF a.err # Nil
    THEN [a EXCEPT !.err = Nil]
    ELSE sockfiltersClose(p, Filter(a.fd, a))

\* After attachSocketFilter in the loop of sockfilters: a is what it returned.
sockfiltersAfter(p, a) ==
    IF a.err # Nil
    THEN [a EXCEPT !.err = Errorf("attaching socket filter", a.err)]
    ELSE sockfiltersClose(p, Filter(a.fd, a))

RECURSIVE sockfilters(_, _, _)
sockfilters(p, filters, m) ==
    IF filters = <<>> \/ m.err # Nil THEN m
    ELSE sockfilters(p, Tail(filters),
                     sockfiltersAfter(p, attachSocketFilter(Head(filters), m)))

----------------------------------------------------------------------------
\* The state machine

\* The running call: the instrumenter's and the Tracer's state, the trace, the
\* number of fallible calls made, and which of them fail.
Begin(p, fail) ==
    [closables |-> closables, links |-> links, closers |-> closers,
     libs |-> instrumentedLibs, ev |-> <<>>, n |-> 0, fail |-> fail,
     err |-> Nil, up |-> 0, p |-> p,
     instrPath |-> NoPath, ino |-> 0, skip |-> FALSE,
     socks |-> sockets, fd |-> -1]

Return(op, p, pid, m) ==
    /\ closables' = m.closables
    /\ links' = m.links
    /\ closers' = m.closers
    /\ instrumentedLibs' = m.libs
    /\ sockets' = m.socks
    /\ hist' = Append(hist, [op |-> op, p |-> p, pid |-> pid, err |-> m.err, ev |-> m.ev,
                             closers0 |-> closers[p], libs0 |-> instrumentedLibs[p],
                             links0 |-> Len(links), socks0 |-> Len(sockets),
                             closers1 |-> m.closers[p], libs1 |-> m.libs[p],
                             links1 |-> Len(m.links), socks1 |-> Len(m.socks)])
    /\ UNCHANGED <<offsets, exe, tracer, procfs, byteOrder, word, swaps>>

\* The fallible calls (attachments, image opens) a call can make at most.
RECURSIVE SumOver(_, _)
SumOver(S, w) ==
    IF S = {} THEN 0
    ELSE LET x == CHOOSE y \in S : TRUE
         IN w[x] + SumOver(S \ {x}, w)
Points(programs, nReturns) ==
    (IF programs.Start # NilProg THEN 1 ELSE 0)
    + (IF programs.End # NilProg THEN nReturns ELSE 0)
GoFallible(p) ==
    LET G == tracer[p].GoProbes
        S == DOMAIN G \cap DOMAIN offsets
    IN SumOver(S, [fn \in S |-> Points(G[fn], Len(offsets[fn].Returns))])
KFallible(p) ==
    LET K == tracer[p].KProbes
    IN SumOver(DOMAIN K, [k \in DOMAIN K |-> Points(K[k], 1)])
UFallible(p) ==
    LET U == tracer[p].UProbes
    IN SumOver(DOMAIN U,
               [l \in DOMAIN U |->
                   1 + SumOver(DOMAIN U[l], [f \in DOMAIN U[l] |-> Points(U[l][f], 1)])])

\* unix.Socket and SetsockoptInt, once per filter.
SockFallible(p) == 2 * Len(tracer[p].SocketFilters)

SymOrders(U) ==
    {so \in [DOMAIN U -> UNION {Perms(DOMAIN U[l]) : l \in DOMAIN U}] :
        \A l \in DOMAIN U : so[l] \in Perms(DOMAIN U[l])}

Goprobes(p) ==
    /\ Len(hist) < MaxCalls
    /\ \E order \in Perms(DOMAIN tracer[p].GoProbes), fail \in SUBSET (1..GoFallible(p)) :
          Return("goprobes", p, 0, goprobes(p, order, Begin(p, fail)))

Kprobes(p) ==
    /\ Len(hist) < MaxCalls
    /\ \E order \in Perms(DOMAIN tracer[p].KProbes), fail \in SUBSET (1..KFallible(p)) :
          Return("kprobes", p, 0, kprobes(p, order, Begin(p, fail)))

Uprobes(pid, p) ==
    /\ Len(hist) < MaxCalls
    /\ \E liborder \in Perms(DOMAIN tracer[p].UProbes),
          symorder \in SymOrders(tracer[p].UProbes),
          fail \in SUBSET (1..UFallible(p)) :
          Return("uprobes", p, pid, uprobes(pid, p, liborder, symorder, Begin(p, fail)))

Sockfilters(p) ==
    /\ Len(hist) < MaxCalls
    /\ \E fail \in SUBSET (1..SockFallible(p)) :
          Return("sockfilters", p, 0, sockfilters(p, tracer[p].SocketFilters, Begin(p, fail)))

\* One application of htons, to the value the application before it gave.
Htons ==
    /\ Len(swaps) < MaxCalls
    /\ swaps' = Append(swaps, [a |-> word, r |-> htons(word)])
    /\ word' = htons(word)
    /\ UNCHANGED <<offsets, exe, closables, tracer, closers, instrumentedLibs, procfs,
                   links, sockets, byteOrder, hist>>

----------------------------------------------------------------------------
\* Initial states

GoFuncs == {"f", "g"}
EntryOf(fn) == IF fn = "f" THEN 100 ELSE 200
Offs(fn, n) == [Start |-> EntryOf(fn), Returns |-> [i \in 1..n |-> EntryOf(fn) + 10 * i]]

\* goexec.Offsets.Funcs: each of f and g resolved or not; f with 0..MaxReturns
\* return sites, g with one.
OffsetChoices ==
    {[fn \in S |-> Offs(fn, IF fn = "f" THEN n ELSE 1)] :
        S \in SUBSET GoFuncs, n \in 0..MaxReturns}

ProgChoices ==
    {FunctionPrograms(s, e, FALSE) : s \in {NilProg, "start"}, e \in {NilProg, "end"}}

KCatalogA ==
    [k \in {"tcp_connect", "tcp_close"} |->
        IF k = "tcp_connect" THEN FunctionPrograms("start", "end", FALSE)
        ELSE FunctionPrograms("start", NilProg, FALSE)]
KCatalogB == [k \in {"sys_accept"} |-> FunctionPrograms(NilProg, "end", FALSE)]

UCatalogA ==
    [l \in {"libssl.so"} |->
        [s \in {"SSL_read", "SSL_write"} |->
            IF s = "SSL_read" THEN FunctionPrograms("start", "end", FALSE)
            ELSE FunctionPrograms("start", NilProg, TRUE)]]
UCatalogB ==
    [l \in {"libssl.so", "libcrypto.so"} |->
        IF l = "libssl.so"
        THEN [s \in {"SSL_read"} |-> FunctionPrograms("start", NilProg, FALSE)]
        ELSE [s \in {"EVP_read"} |-> FunctionPrograms(NilProg, "end", TRUE)]]

TracerA(fprogs) ==
    [GoProbes |-> [fn \in GoFuncs |-> IF fn = "f" THEN fprogs
                                      ELSE FunctionPrograms("start", "end", FALSE)],
     KProbes |-> KCatalogA, UProbes |-> UCatalogA,
     SocketFilters |-> <<"http_filter", "dns_filter">>]
TracerB ==
    [GoProbes |-> [fn \in {"g"} |-> FunctionPrograms("start", NilProg, FALSE)],
     KProbes |-> KCatalogB, UProbes |-> UCatalogB,
     SocketFilters |-> <<"sock_filter">>]

TracerChoices == {[e \in Entities |-> IF e = "A" THEN TracerA(fp) ELSE TracerB] :
                     fp \in ProgChoices}

\* One mapping of /proc/<pid>/maps, with what os.Stat answers for its
\* map_files path: an error, or an inode (never 0 for a file that exists).
MapEntry(path, lo, statOk, ino) ==
    [Pathname |-> path, StartAddr |-> lo, EndAddr |-> lo + 1, statOk |-> statOk, Ino |-> ino]
ExeEntry == MapEntry("/usr/bin/app", 1, TRUE, 11)
SslEntries == {MapEntry("/usr/lib/libssl.so.3", 3, ok, IF ok THEN 12 ELSE 0) : ok \in BOOLEAN}
CryptoEntries == {MapEntry("/usr/lib/libcrypto.so.3", 5, ok, IF ok THEN 13 ELSE 0) : ok \in BOOLEAN}

LiveMaps ==
    {<<ExeEntry>>}
    \cup {<<ExeEntry, s>> : s \in SslEntries}
    \cup {<<ExeEntry, c>> : c \in CryptoEntries}
    \cup {<<ExeEntry, s, c>> : s \in SslEntries, c \in CryptoEntries}
GoneMaps == {[err |-> <<"procfs">>, maps |-> <<>>], [err |-> Nil, maps |-> <<>>]}

\* pid 1 is alive, pid 2 has exited.
ProcfsChoices ==
    {[pid \in Pids |-> IF pid = 1 THEN [err |-> Nil, maps |-> live] ELSE gone] :
        live \in LiveMaps, gone \in GoneMaps}

ByteOrders == {"little", "big"}

InitOn(O, T, P, B, W) ==
    /\ offsets \in O
    /\ exe = MainImage
    /\ closables = <<>>
    /\ tracer \in T
    /\ closers = [e \in Entities |-> <<>>]
    /\ instrumentedLibs = [e \in Entities |-> {}]
    /\ procfs \in P
    /\ links = <<>>
    /\ sockets = <<>>
    /\ byteOrder \in B
    /\ word \in W
    /\ swaps = <<>>
    /\ hist = <<>>

\* On a little-endian host.
InitWith(O, T, P) == InitOn(O, T, P, {"little"}, {ETH_P_ALL})

BaseOffsets == {[fn \in {"f"} |-> Offs(fn, 1)]}
BaseTracer == {[e \in Entities |-> IF e = "A"
                                   THEN TracerA(FunctionPrograms("start", "end", FALSE))
                                   ELSE TracerB]}
BaseProcfs ==
    {[pid \in Pids |->
        IF pid = 1
        THEN [err |-> Nil,
              maps |-> <<ExeEntry, MapEntry("/usr/lib/libssl.so.3", 3, TRUE, 12)>>]
        ELSE [err |-> <<"procfs">>, maps |-> <<>>]]}

Init == InitWith(BaseOffsets, BaseTracer, BaseProcfs)

Next ==
    \E p \in Entities :
        \/ Goprobes(p)
        \/ Kprobes(p)
        \/ \E pid \in Pids : Uprobes(pid, p)
        \/ Sockfilters(p)

Spec == Init /\ [][Next]_vars

\* Main-binary and kernel probes, over every resolution of the offsets and
\* every program pair of f.
InitGo == InitWith(OffsetChoices, TracerChoices, BaseProcfs)
NextGo == \E p \in Entities : Goprobes(p) \/ Kprobes(p)
SpecGo == InitGo /\ [][NextGo]_vars

\* Library probes, over every process map.
InitU == InitWith(BaseOffsets, BaseTracer, ProcfsChoices)
NextU == \E p \in Entities, pid \in Pids : Uprobes(pid, p)
SpecU == InitU /\ [][NextU]_vars

\* Socket filters, after kernel probes or not, on a host of either byte order.
InitS == InitOn(BaseOffsets, BaseTracer, BaseProcfs, ByteOrders, {ETH_P_ALL})
NextS == \E p \in Entities : Sockfilters(p) \/ Kprobes(p)
SpecS == InitS /\ [][NextS]_vars

\* htons, over every 16-bit value on a host of either byte order.
InitH == InitOn(BaseOffsets, BaseTracer, BaseProcfs, ByteOrders, 0..(Byte * Byte - 1))
NextH == Htons
SpecH == InitH /\ [][NextH]_vars

\* Catalogs that hold a pair with neither program: A's pair of f, of
\* tcp_connect and of SSL_read (the last marked required).
Neither == FunctionPrograms(NilProg, NilProg, FALSE)
KCatalogN ==
    [k \in {"tcp_connect", "tcp_close"} |->
        IF k = "tcp_connect" THEN Neither
        ELSE FunctionPrograms("start", NilProg, FALSE)]
UCatalogN ==
    [l \in {"libssl.so"} |->
        [s \in {"SSL_read", "SSL_write"} |->
            IF s = "SSL_read" THEN FunctionPrograms(NilProg, NilProg, TRUE)
            ELSE FunctionPrograms("start", NilProg, FALSE)]]
TracerN ==
    [TracerA(Neither) EXCEPT !.KProbes = KCatalogN, !.UProbes = UCatalogN]
BothOffsets == {[fn \in GoFuncs |-> Offs(fn, 1)]}
InitN == InitWith(BothOffsets,
                  {[e \in Entities |-> IF e = "A" THEN TracerN ELSE TracerB]},
                  BaseProcfs)
SpecN == InitN /\ [][Next]_vars

----------------------------------------------------------------------------
\* Reading a call's record

AttachKinds == {"Uprobe", "Uretprobe", "Kprobe", "Kretprobe"}
ProbeOps == {"goprobes", "kprobes", "uprobes"}

\* How often h occurs in s.
Count(h, s) == Cardinality({k \in DOMAIN s : s[k] = h})

\* The handles a call created.
Created(c) == (c.links0 + 1)..c.links1

\* The batches a call passed to AddCloser, concatenated in order.
RECURSIVE Delivered(_)
Delivered(ev) ==
    IF ev = <<>> THEN <<>>
    ELSE (IF Head(ev).t = "AddCloser" THEN Head(ev).hs ELSE <<>>) \o Delivered(Tail(ev))

----------------------------------------------------------------------------
\* C1: when goprobes, kprobes or uprobes returns an error, every handle the
\* call created before failing has already been passed to the Tracer's
\* AddCloser, the handles of the function whose later attachment point failed
\* included.
C1_CreatedHandlesDeliveredOnError ==
    \A k \in DOMAIN hist :
        (hist[k].op \in ProbeOps /\ hist[k].err # Nil)
            => \A h \in Created(hist[k]) : h \in Range(Delivered(hist[k].ev))

\* Every handle passed to the AddCloser of Tracer e by the calls of h, in order.
RECURSIVE PassedTo(_, _)
PassedTo(e, h) ==
    IF h = <<>> THEN <<>>
    ELSE (IF Head(h).p = e THEN Delivered(Head(h).ev) ELSE <<>>) \o PassedTo(e, Tail(h))

\* C2: after any sequence of goprobes, kprobes and uprobes calls, AddCloser
\* was never passed a handle it had already been passed, so that the sink
\* holds each handle once.
C2_SinkHoldsEachHandleOnce ==
    \A e \in Entities :
        /\ closers[e] = PassedTo(e, hist)
        /\ \A h \in Range(closers[e]) : Count(h, closers[e]) = 1

----------------------------------------------------------------------------
\* Reading the record of a uprobes call

UCatalog(c) == tracer[c.p].UProbes
MapOf(c, lib) == LibPath(lib, procfs[c.pid].maps)
MapsRead(c) == procfs[c.pid].err = Nil /\ procfs[c.pid].maps # <<>>
\* The library is mapped and os.Stat gives the inode of its map_files path.
InodeKnown(c, lib) == MapsRead(c) /\ MapOf(c, lib) # NilMap /\ MapOf(c, lib).statOk
NotMapped(c, lib) == MapsRead(c) /\ MapOf(c, lib) = NilMap
MapPath(c, lib) ==
    [pid |-> c.pid, file |-> "map_files",
     lo |-> MapOf(c, lib).StartAddr, hi |-> MapOf(c, lib).EndAddr]
ExePath(c) == [pid |-> c.pid, file |-> "exe", lo |-> 0, hi |-> 0]

\* ev[j] starts the iteration of the outer loop for lib, and ev[k] belongs to it.
StartsLib(ev, j, lib) ==
    j \in DOMAIN ev /\ ev[j].t = "finding library" /\ ev[j].name = lib
Within(ev, j, k) ==
    k \in DOMAIN ev /\ k > j /\ \A i \in (j + 1)..k : ev[i].t # "finding library"
\* The library whose iteration ev[k] belongs to.
LibAt(ev, k) ==
    ev[CHOOSE j \in 1..k : ev[j].t = "finding library" /\ (j = k \/ Within(ev, j, k))].name
\* i.uprobe was called for sym in the iteration started by ev[j].
Attempted(ev, j, sym) ==
    \E i \in DOMAIN ev :
        Within(ev, j, i) /\ ev[i].t = "going to instrument function" /\ ev[i].name = sym
FailedAttach(ev, k) == ev[k].t \in AttachKinds /\ ~ev[k].ok
\* The attachment ev[k] is of a pair marked required.
RequiredAt(c, k) == UCatalog(c)[LibAt(c.ev, k)][c.ev[k].name].Required
Touches(e, path) == e.target = path /\ e.t \in AttachKinds \cup {"OpenExecutable"}

\* hist[k] and hist[k+1] are two uprobes calls in succession for the same
\* Tracer and process.
TwoScans(k) ==
    /\ k \in DOMAIN hist /\ k + 1 \in DOMAIN hist
    /\ hist[k].op = "uprobes" /\ hist[k + 1].op = "uprobes"
    /\ hist[k].p = hist[k + 1].p /\ hist[k].pid = hist[k + 1].pid

\* The first scan met lib mapped, with its inode known and not yet recorded,
\* and returned success.
FreshScan(c, lib) ==
    c.err = Nil /\ InodeKnown(c, lib) /\ MapOf(c, lib).Ino \notin c.libs0

\* C3: of two uprobes calls in succession for the same Tracer, process and
\* library, the library mapped with a known inode and the first call
\* returning success, the first attaches the library's symbols and records the
\* inode, and the second attaches nothing, creates no handle and returns
\* success.
C3_SecondScanAttachesNothing ==
    \A k \in DOMAIN hist :
        TwoScans(k) =>
            LET c1 == hist[k]
                c2 == hist[k + 1]
            IN /\ \A lib \in DOMAIN UCatalog(c1) :
                      FreshScan(c1, lib) =>
                          /\ \E j \in DOMAIN c1.ev :
                                /\ StartsLib(c1.ev, j, lib)
                                /\ \A sym \in DOMAIN UCatalog(c1)[lib] :
                                      Attempted(c1.ev, j, sym)
                          /\ MapOf(c1, lib).Ino \in c1.libs1
                          /\ \A i \in DOMAIN c2.ev : ~Touches(c2.ev[i], MapPath(c1, lib))
                          /\ \A h \in Created(c2) : links[h].target # MapPath(c1, lib)
               /\ (\A lib \in DOMAIN UCatalog(c1) : FreshScan(c1, lib)) =>
                      /\ c2.err = Nil
                      /\ Created(c2) = {}
                      /\ \A i \in DOMAIN c2.ev :
                            c2.ev[i].t \notin AttachKinds \cup {"OpenExecutable", "AddCloser"}

C3_Witness ==
    \E k \in DOMAIN hist :
        /\ TwoScans(k)
        /\ \A lib \in DOMAIN UCatalog(hist[k]) : FreshScan(hist[k], lib)
        /\ Cardinality(Created(hist[k])) >= 2
        /\ hist[k + 1].ev # <<>>

\* C4 as stated: over any sequence of uprobes calls for one Tracer, calls that
\* return an error included, no symbol of a mapped library is attached twice.
C4_MappedSymbolAttachedAtMostOnce ==
    \A h1, h2 \in DOMAIN links :
        (h1 < h2 /\ links[h1].target.file = "map_files" /\ links[h1].by = links[h2].by)
            => ~(/\ links[h1].target = links[h2].target
                 /\ links[h1].sym = links[h2].sym
                 /\ links[h1].kind = links[h2].kind)

\* C4, amended: a uprobes call that starts with the inode of a mapped library
\* in the Tracer's registry attaches no symbol of that library.
C4_RecordedLibraryNotReattached ==
    \A k \in DOMAIN hist :
        hist[k].op = "uprobes" =>
            \A lib \in DOMAIN UCatalog(hist[k]) :
                (InodeKnown(hist[k], lib) /\ MapOf(hist[k], lib).Ino \in hist[k].libs0)
                    => /\ \A h \in Created(hist[k]) :
                             links[h].target # MapPath(hist[k], lib)
                       /\ \A i \in DOMAIN hist[k].ev :
                             ~Touches(hist[k].ev[i], MapPath(hist[k], lib))

C4_Witness ==
    \E k \in DOMAIN hist :
        /\ hist[k].op = "uprobes"
        /\ \E lib \in DOMAIN UCatalog(hist[k]) :
              /\ InodeKnown(hist[k], lib)
              /\ MapOf(hist[k], lib).Ino \in hist[k].libs0
              /\ \E h \in 1..hist[k].links0 :
                    links[h].target = MapPath(hist[k], lib) /\ links[h].by = hist[k].p

\* C5: RecordInstrumentedLib(inode) is called for a library only after
\* i.uprobe has been called for each of its functions, with the inode os.Stat
\* gave (never for a library not in the map or whose stat failed); and when
\* the call returns an error from a library's iteration, that library's inode
\* is not in the registry.
C5_RecordedOnlyAfterAllAttempted ==
    \A k \in DOMAIN hist :
        hist[k].op = "uprobes" =>
            LET c == hist[k]
                ev == c.ev
            IN /\ \A r \in DOMAIN ev :
                      ev[r].t = "RecordInstrumentedLib" =>
                          LET lib == LibAt(ev, r)
                          IN /\ InodeKnown(c, lib)
                             /\ ev[r].ino = MapOf(c, lib).Ino
                             /\ ev[r].ino # 0
                             /\ \E j \in 1..r :
                                   /\ StartsLib(ev, j, lib)
                                   /\ Within(ev, j, r)
                                   /\ \A sym \in DOMAIN UCatalog(c)[lib] :
                                         \E i \in j..r :
                                            /\ ev[i].t = "going to instrument function"
                                            /\ ev[i].name = sym
               /\ c.libs1 = c.libs0 \cup {ev[r].ino : r \in {i \in DOMAIN ev :
                                             ev[i].t = "RecordInstrumentedLib"}}
               /\ (c.err # Nil /\ ev # <<>>) =>
                      LET lib == LibAt(ev, Len(ev))
                      IN InodeKnown(c, lib) => MapOf(c, lib).Ino \notin c.libs1

C5_Witness ==
    /\ \E k \in DOMAIN hist :
          /\ hist[k].op = "uprobes" /\ hist[k].err # Nil /\ hist[k].ev # <<>>
          /\ InodeKnown(hist[k], LibAt(hist[k].ev, Len(hist[k].ev)))
          /\ Created(hist[k]) # {}
    /\ \E k \in DOMAIN hist :
          /\ hist[k].op = "uprobes"
          /\ \E r \in DOMAIN hist[k].ev : hist[k].ev[r].t = "RecordInstrumentedLib"

\* C6: with the process map not empty and every image opening, uprobes
\* returns an error iff the attachment of a pair marked required fails; a
\* failing optional pair does not end the loop over its library's functions;
\* and what AddCloser received before a required failure stays in the sink.
C6_FailsIffRequiredFails ==
    \A k \in DOMAIN hist :
        (/\ hist[k].op = "uprobes"
         /\ MapsRead(hist[k])
         /\ \A i \in DOMAIN hist[k].ev :
               hist[k].ev[i].t = "OpenExecutable" => hist[k].ev[i].ok) =>
            LET c == hist[k]
                ev == c.ev
            IN /\ c.err # Nil <=>
                      \E i \in DOMAIN ev : FailedAttach(ev, i) /\ RequiredAt(c, i)
               /\ \A i \in DOMAIN ev :
                      (FailedAttach(ev, i) /\ ~RequiredAt(c, i)) =>
                          /\ i + 2 \in DOMAIN ev
                          /\ ev[i + 2].t = "AddCloser"
               /\ \A j \in DOMAIN ev : \A lib \in DOMAIN UCatalog(c) :
                      (/\ StartsLib(ev, j, lib)
                       /\ \E o \in DOMAIN ev : Within(ev, j, o) /\ ev[o].t = "OpenExecutable"
                       /\ ~\E i \in DOMAIN ev :
                              Within(ev, j, i) /\ FailedAttach(ev, i) /\ RequiredAt(c, i))
                          => \A sym \in DOMAIN UCatalog(c)[lib] : Attempted(ev, j, sym)
               /\ c.closers1 = c.closers0 \o Delivered(ev)

C6_Witness ==
    \E k \in DOMAIN hist :
        LET c == hist[k]
        IN /\ c.op = "uprobes" /\ MapsRead(c) /\ c.err # Nil
           /\ \A i \in DOMAIN c.ev : c.ev[i].t = "OpenExecutable" => c.ev[i].ok
           /\ \E i, j \in DOMAIN c.ev :
                 /\ i < j
                 /\ FailedAttach(c.ev, i) /\ ~RequiredAt(c, i)
                 /\ FailedAttach(c.ev, j) /\ RequiredAt(c, j)
           /\ Len(c.closers1) > Len(c.closers0)

\* C7: when the process map cannot be read, uprobes returns success, attaches
\* nothing and leaves the closer sink and the registry as they were.
C7_UnreadableMapIsSuccess ==
    \A k \in DOMAIN hist :
        (hist[k].op = "uprobes" /\ procfs[hist[k].pid].err # Nil) =>
            /\ hist[k].err = Nil
            /\ hist[k].ev = <<>>
            /\ Created(hist[k]) = {}
            /\ hist[k].closers1 = hist[k].closers0
            /\ hist[k].libs1 = hist[k].libs0

\* C8: when the process map is read and is empty, uprobes returns success
\* without opening an image, attaching, calling AddCloser, or consulting or
\* changing the registry.
C8_EmptyMapIsNoOp ==
    \A k \in DOMAIN hist :
        (/\ hist[k].op = "uprobes"
         /\ procfs[hist[k].pid].err = Nil
         /\ procfs[hist[k].pid].maps = <<>>) =>
            /\ hist[k].err = Nil
            /\ hist[k].ev = <<>>
            /\ Created(hist[k]) = {}
            /\ hist[k].closers1 = hist[k].closers0
            /\ hist[k].libs1 = hist[k].libs0

C8_Witness ==
    \E k \in DOMAIN hist :
        /\ hist[k].op = "uprobes"
        /\ procfs[hist[k].pid].err = Nil
        /\ procfs[hist[k].pid].maps = <<>>
        /\ DOMAIN UCatalog(hist[k]) # {}
        /\ hist[k].closers0 # <<>>

\* C9: for a library that no mapping matches, uprobes opens /proc/<pid>/exe,
\* calls i.uprobe for the library's functions against it (for all of them when
\* the call is not ended by a failure), neither consults nor changes the
\* registry for that library; a repeated call does the same again.
C9_StaticFallbackUsesExe ==
    \A k \in DOMAIN hist :
        hist[k].op = "uprobes" =>
            LET c == hist[k]
                ev == c.ev
            IN \A lib \in DOMAIN UCatalog(c) :
                  NotMapped(c, lib) =>
                      /\ c.err = Nil => \E j \in DOMAIN ev : StartsLib(ev, j, lib)
                      /\ \A j \in DOMAIN ev :
                            StartsLib(ev, j, lib) =>
                                /\ j + 2 \in DOMAIN ev
                                /\ ev[j + 2].t = "OpenExecutable"
                                /\ ev[j + 2].target = ExePath(c)
                                /\ \A i \in DOMAIN ev :
                                      Within(ev, j, i) =>
                                          /\ ev[i].t \notin {"Stat", "AlreadyInstrumentedLib",
                                                             "RecordInstrumentedLib"}
                                          /\ ev[i].t \in AttachKinds
                                                \cup {"OpenExecutable",
                                                      "going to instrument function"}
                                                => ev[i].target = ExePath(c)
                                /\ (/\ ev[j + 2].ok
                                    /\ ~\E i \in DOMAIN ev :
                                           /\ Within(ev, j, i)
                                           /\ FailedAttach(ev, i)
                                           /\ RequiredAt(c, i))
                                      => \A sym \in DOMAIN UCatalog(c)[lib] :
                                            Attempted(ev, j, sym)
                      /\ (\A l \in DOMAIN UCatalog(c) : NotMapped(c, l)) => c.libs1 = c.libs0

C9_Witness ==
    \E k \in DOMAIN hist :
        /\ TwoScans(k)
        /\ \E lib \in DOMAIN UCatalog(hist[k]) :
              /\ NotMapped(hist[k], lib)
              /\ \E h1 \in Created(hist[k]), h2 \in Created(hist[k + 1]) :
                    /\ links[h1].target = ExePath(hist[k])
                    /\ links[h2].target = ExePath(hist[k])
                    /\ links[h1].sym = links[h2].sym
                    /\ links[h1].kind = links[h2].kind

----------------------------------------------------------------------------
\* Reading the record of a goprobes call

\* The attachments goprobe makes for fn: the entry program at the entry
\* offset, then the return program at each return offset, in order.
ExpectedUprobes(fn, programs) ==
    (IF programs.Start # NilProg
     THEN <<[addr |-> offsets[fn].Start, prog |-> programs.Start]>>
     ELSE <<>>)
    \o (IF programs.End # NilProg
        THEN [i \in 1..Len(offsets[fn].Returns) |->
                 [addr |-> offsets[fn].Returns[i], prog |-> programs.End]]
        ELSE <<>>)

\* The goprobe started at ev[j] returned nil: AddCloser follows its attachments.
GoprobeSucceeded(ev, j) ==
    \E q \in (j + 1)..Len(ev) :
        ev[q].t = "AddCloser" /\ \A i \in (j + 1)..(q - 1) : ev[i].t = "Uprobe"

\* C10: for a symbol in the offsets with N return offsets, a successful
\* goprobe creates 1 handle if only the entry program is set, N if only the
\* return program is set, 1+N if both: a uprobe at the entry offset and one at
\* each return offset, in the order of the return offsets.
C10_OneHandlePerAttachPoint ==
    \A k \in DOMAIN hist :
        hist[k].op = "goprobes" =>
            LET c == hist[k]
                ev == c.ev
            IN \A j \in DOMAIN ev :
                  (ev[j].t = "going to instrument function" /\ GoprobeSucceeded(ev, j)) =>
                      LET X == ExpectedUprobes(ev[j].name, tracer[c.p].GoProbes[ev[j].name])
                          n == Len(X)
                      IN /\ j + n + 1 \in DOMAIN ev
                         /\ ev[j + n + 1].t = "AddCloser"
                         /\ \A i \in 1..n :
                               /\ ev[j + i].t = "Uprobe"
                               /\ ev[j + i].ok
                               /\ ev[j + i].target = exe
                               /\ ev[j + i].addr = X[i].addr
                               /\ Len(ev[j + i].hs) = 1
                               /\ ev[j + i].hs[1] = ev[j + 1].hs[1] + (i - 1)
                               /\ links[ev[j + i].hs[1]].addr = X[i].addr
                               /\ links[ev[j + i].hs[1]].prog = X[i].prog

C10_Witness ==
    \E k \in DOMAIN hist :
        /\ hist[k].op = "goprobes"
        /\ \E j \in DOMAIN hist[k].ev :
              /\ hist[k].ev[j].t = "going to instrument function"
              /\ GoprobeSucceeded(hist[k].ev, j)
              /\ tracer[hist[k].p].GoProbes[hist[k].ev[j].name].Start # NilProg
              /\ tracer[hist[k].p].GoProbes[hist[k].ev[j].name].End # NilProg
              /\ Len(offsets[hist[k].ev[j].name].Returns) >= 2
              /\ Cardinality(Created(hist[k])) >= 3

----------------------------------------------------------------------------
\* Reading the record of any probe call

\* ev[j] starts the iteration of a loop for one function.
StartsFunc(ev, j) ==
    ev[j].t \in {"going to instrument function", "going to add kprobe to function"}

\* The program pair the catalog of call c holds for the function of c.ev[j].
PairAt(c, j) ==
    IF c.op = "goprobes" THEN tracer[c.p].GoProbes[c.ev[j].name]
    ELSE IF c.op = "kprobes" THEN tracer[c.p].KProbes[c.ev[j].name]
    ELSE tracer[c.p].UProbes[LibAt(c.ev, j)][c.ev[j].name]

NeitherAt(c, j) ==
    StartsFunc(c.ev, j) /\ PairAt(c, j).Start = NilProg /\ PairAt(c, j).End = NilProg

\* C11: in goprobes, kprobes and uprobes, the iteration for a pair with
\* neither an entry nor a return program calls no attachment primitive and
\* creates no handle, and it ends as a successful one does (AddCloser is the
\* next call made), so that the call does not fail because of it.
C11_EmptyPairAttachesNothing ==
    \A k \in DOMAIN hist :
        hist[k].op \in ProbeOps =>
            LET c == hist[k]
                ev == c.ev
            IN /\ \A j \in DOMAIN ev :
                     NeitherAt(c, j) =>
                        /\ j + 1 \in DOMAIN ev
                        /\ ev[j + 1].t = "AddCloser"
               /\ (\A j \in DOMAIN ev : StartsFunc(ev, j) => NeitherAt(c, j))
                     => c.links1 = c.links0

C11_Witness ==
    \E k \in DOMAIN hist :
        /\ hist[k].op = "uprobes"
        /\ hist[k].err = Nil
        /\ \E j \in DOMAIN hist[k].ev :
              /\ NeitherAt(hist[k], j)
              /\ PairAt(hist[k], j).Required
        /\ Cardinality(Created(hist[k])) = 1
        /\ \E q \in DOMAIN hist :
              /\ hist[q].op \in {"goprobes", "kprobes"}
              /\ \E j \in DOMAIN hist[q].ev : NeitherAt(hist[q], j)

\* The event that starts the iteration ev[k] belongs to, and its function.
StartOf(ev, k) ==
    CHOOSE j \in 1..k : StartsFunc(ev, j) /\ \A i \in (j + 1)..k : ~StartsFunc(ev, i)
FuncAt(ev, k) == ev[StartOf(ev, k)].name

\* C12: in goprobes and kprobes a failed attachment is the last thing the
\* call does; the call returns an error that names the function of the failed
\* attachment; and every handle created for a function attached before that
\* one is in the Tracer's sink when the call returns.
C12_AttachFailureIsFatal ==
    \A k \in DOMAIN hist :
        hist[k].op \in {"goprobes", "kprobes"} =>
            LET c == hist[k]
                ev == c.ev
            IN /\ c.err # Nil <=> \E i \in DOMAIN ev : FailedAttach(ev, i)
               /\ \A i \in DOMAIN ev :
                     FailedAttach(ev, i) =>
                        /\ i = Len(ev)
                        /\ Len(c.err) >= 2
                        /\ c.err[1] = "instrumenting function"
                        /\ c.err[2] = FuncAt(ev, i)
                        /\ \A q \in 1..(i - 1) :
                              (/\ ev[q].t \in AttachKinds
                               /\ StartOf(ev, q) # StartOf(ev, i))
                                 => /\ ev[q].ok
                                    /\ ev[q].hs[1] \in Range(c.closers1)

C12_Witness ==
    \E k \in DOMAIN hist :
        /\ hist[k].op = "goprobes"
        /\ hist[k].err # Nil
        /\ FailedAttach(hist[k].ev, Len(hist[k].ev))
        /\ \E q \in DOMAIN hist[k].ev :
              /\ hist[k].ev[q].t \in AttachKinds
              /\ StartOf(hist[k].ev, q) # StartOf(hist[k].ev, Len(hist[k].ev))
              /\ hist[k].ev[q].hs[1] \in Created(hist[k])
        /\ \E q \in DOMAIN hist :
              hist[q].op = "kprobes" /\ hist[q].err # Nil

\* The goprobes call c ignored fn at ev[j].
Ignores(ev, j, fn) == ev[j].t = "ignoring function" /\ ev[j].name = fn

\* C13: in goprobes, for a name of the catalog without resolved offsets,
\* i.goprobe is not called and no attachment follows the note that the name
\* is ignored; the error of the call, if any, does not name it; and a call
\* that returns nil has attached every name of the catalog that has offsets.
C13_AbsentNameIsSkipped ==
    \A k \in DOMAIN hist :
        hist[k].op = "goprobes" =>
            LET c == hist[k]
                ev == c.ev
                G == tracer[c.p].GoProbes
            IN /\ \A fn \in DOMAIN G \ DOMAIN offsets :
                     /\ \A j \in DOMAIN ev :
                           /\ ~(StartsFunc(ev, j) /\ ev[j].name = fn)
                           /\ Ignores(ev, j, fn) /\ j < Len(ev)
                                 => ev[j + 1].t \in {"ignoring function",
                                                     "going to instrument function"}
                     /\ c.err # Nil => c.err[2] # fn
                     /\ c.err = Nil => \E j \in DOMAIN ev : Ignores(ev, j, fn)
               /\ c.err = Nil =>
                     \A fn \in DOMAIN G \cap DOMAIN offsets :
                        \E j \in DOMAIN ev :
                           /\ StartsFunc(ev, j)
                           /\ ev[j].name = fn
                           /\ GoprobeSucceeded(ev, j)

C13_Witness ==
    \E k \in DOMAIN hist :
        /\ hist[k].op = "goprobes"
        /\ hist[k].err = Nil
        /\ \E i, j \in DOMAIN hist[k].ev :
              /\ i < j
              /\ hist[k].ev[i].t = "ignoring function"
              /\ StartsFunc(hist[k].ev, j)
              /\ hist[k].ev[j].name \in DOMAIN offsets
        /\ Cardinality(Created(hist[k])) >= 2

----------------------------------------------------------------------------
\* Reading the record of a sockfilters call

\* The handle h is a Filter that owns the socket fd.
Owns(h, fd) == links[h].kind = "Filter" /\ links[h].addr = fd

\* C14: every raw socket that sockfilters opened (none is ever closed by the
\* attacher) is owned by a Filter handle in the sink of the Tracer it was
\* opened for, the socket whose SetsockoptInt failed included.
C14_OpenSocketsAreOwned ==
    \A fd \in DOMAIN sockets :
        \E h \in Range(closers[sockets[fd].by]) : Owns(h, fd)

\* C15: a sockfilters call takes the filters in the order of the catalog, for
\* each one Socket, SetsockoptInt with that filter, and AddCloser with one new
\* Filter handle owning the socket; a failed Socket or SetsockoptInt is the
\* last thing the call does and the call returns an error; the sink gains
\* exactly the handles of the filters before the failed one, after what it
\* held; and a call returning nil has delivered one new handle per filter,
\* each once.
C15_FiltersInOrderUntilFailure ==
    \A k \in DOMAIN hist :
        hist[k].op = "sockfilters" =>
            LET c == hist[k]
                ev == c.ev
                F == tracer[c.p].SocketFilters
                D == Delivered(ev)
            IN /\ Len(ev) <= 3 * Len(F)
               /\ \A i \in DOMAIN ev :
                     LET t == ((i - 1) \div 3) + 1
                         r == (i - 1) % 3
                     IN /\ r = 0 => ev[i].t = "Socket"
                        /\ r = 1 => /\ ev[i].t = "SetsockoptInt"
                                    /\ ev[i].name = F[t]
                                    /\ ev[i].addr = ev[i - 1].addr
                        /\ r = 2 => /\ ev[i].t = "AddCloser"
                                    /\ ev[i].hs = <<c.links0 + t>>
                                    /\ Owns(c.links0 + t, ev[i - 1].addr)
                                    /\ sockets[ev[i - 1].addr].prog = F[t]
                        /\ ~ev[i].ok => i = Len(ev)
               /\ c.err # Nil <=> (ev # <<>> /\ ~ev[Len(ev)].ok)
               /\ c.err # Nil => c.err[1] = "attaching socket filter"
               /\ c.err = Nil => Len(ev) = 3 * Len(F)
               /\ Len(D) = Len(ev) \div 3
               /\ \A t \in DOMAIN D : D[t] = c.links0 + t
               /\ c.links1 = c.links0 + Len(D)
               /\ c.closers1 = c.closers0 \o D

C15_Witness ==
    \E k, q \in DOMAIN hist :
        /\ hist[k].op = "sockfilters"
        /\ hist[k].err = Nil
        /\ Len(Delivered(hist[k].ev)) = 2
        /\ hist[q].op = "sockfilters"
        /\ hist[q].err # Nil
        /\ Len(Delivered(hist[q].ev)) = 1
        /\ hist[q].ev[Len(hist[q].ev)].t = "SetsockoptInt"

----------------------------------------------------------------------------
\* C16: every application of htons gives a 16-bit value; on a little-endian
\* host it is the argument with its two bytes swapped (1 gives 256 and 256
\* gives 1), on a big-endian host it is the argument; and htons applied to
\* the result of htons gives back the first argument.
C16_HtonsIsInvolution ==
    \A k \in DOMAIN swaps :
        /\ swaps[k].r \in 0..65535
        /\ byteOrder = "little"
              => /\ swaps[k].r = (swaps[k].a % 256) * 256 + (swaps[k].a \div 256)
                 /\ swaps[k].a = 1 => swaps[k].r = 256
                 /\ swaps[k].a = 256 => swaps[k].r = 1
        /\ byteOrder = "big" => swaps[k].r = swaps[k].a
        /\ k > 1 => /\ swaps[k].a = swaps[k - 1].r
                    /\ swaps[k].r = swaps[k - 1].a

C16_Witness ==
    /\ byteOrder = "little"
    /\ Len(swaps) = 2
    /\ swaps[1] = [a |-> 1, r |-> 256]
    /\ swaps[2] = [a |-> 256, r |-> 1]
    /\ word = 1

----------------------------------------------------------------------------
\* C17: after any sequence of goprobes, kprobes and uprobes calls for
\* different Tracers through the one instrumenter, the sink of a Tracer holds
\* only handles created by calls made for that Tracer.
C17_HandlesStayWithTheirEntity ==
    \A e \in Entities :
        \A h \in Range(closers[e]) : links[h].by = e

----------------------------------------------------------------------------
\* The inodes the call had recorded before ev[j].
RecordedBefore(ev, j) ==
    {ev[i].ino : i \in {q \in 1..(j - 1) : ev[q].t = "RecordInstrumentedLib"}}
\* The handles the call had created before ev[j].
CreatedBefore(ev, j) ==
    UNION {Range(ev[i].hs) : i \in {q \in 1..(j - 1) : ev[q].t \in AttachKinds}}
LibsVisited(ev) == {ev[i].name : i \in {q \in DOMAIN ev : ev[q].t = "finding library"}}

\* C18: in uprobes, the registry answers that a library is already
\* instrumented exactly when its inode was recorded; the iteration of such a
\* library ends there, with no image opened and nothing attached, and the
\* call goes on with the next library or, after the last one, returns nil
\* with every library of the catalog visited.  A failed OpenExecutable is
\* the last thing the call does: the call returns an error, and the inodes
\* recorded and the handles created earlier in the call are in the registry
\* and in the sink.
C18_SkipGoesOnOpenFailureStops ==
    \A k \in DOMAIN hist :
        hist[k].op = "uprobes" =>
            LET c == hist[k]
                ev == c.ev
            IN \A j \in DOMAIN ev :
                  /\ ev[j].t = "AlreadyInstrumentedLib" =>
                        /\ ev[j].ok <=> ev[j].ino \in c.libs0 \cup RecordedBefore(ev, j)
                        /\ ev[j].ok =>
                              IF j = Len(ev)
                              THEN /\ c.err = Nil
                                   /\ LibsVisited(ev) = DOMAIN UCatalog(c)
                              ELSE /\ ev[j + 1].t = "finding library"
                                   /\ ev[j + 1].name \notin LibsVisited(SubSeq(ev, 1, j))
                  /\ (ev[j].t = "OpenExecutable" /\ ~ev[j].ok) =>
                        /\ j = Len(ev)
                        /\ c.err # Nil
                        /\ c.libs0 \cup RecordedBefore(ev, j) = c.libs1
                        /\ CreatedBefore(ev, j) = Created(c)
                        /\ Created(c) \subseteq Range(c.closers1)

C18_Witness ==
    \E k, q \in DOMAIN hist :
        /\ hist[k].op = "uprobes"
        /\ hist[k].ev # <<>>
        /\ hist[k].ev[Len(hist[k].ev)].t = "OpenExecutable"
        /\ hist[k].err # Nil
        /\ RecordedBefore(hist[k].ev, Len(hist[k].ev)) # {}
        /\ Created(hist[k]) # {}
        /\ hist[q].op = "uprobes"
        /\ \E j \in DOMAIN hist[q].ev :
              /\ hist[q].ev[j].t = "AlreadyInstrumentedLib"
              /\ hist[q].ev[j].ok
              /\ j < Len(hist[q].ev)
        /\ Created(hist[q]) # {}

----------------------------------------------------------------------------
\* The attachment points of the handles call c created.
Attached(c) ==
    {[kind |-> links[h].kind, target |-> links[h].target, sym |-> links[h].sym,
      addr |-> links[h].addr, prog |-> links[h].prog] : h \in Created(c)}

\* hist[k] and hist[q] are two calls of the same entry point, goprobes or
\* kprobes, for the same Tracer, that both returned nil.
Repeated(k, q) ==
    /\ k < q
    /\ hist[k].op \in {"goprobes", "kprobes"}
    /\ hist[q].op = hist[k].op
    /\ hist[q].p = hist[k].p
    /\ hist[k].err = Nil
    /\ hist[q].err = Nil

\* C19: no call removes an inode from the registry of its Tracer, and what a
\* call left there is still there later; goprobes, kprobes and sockfilters
\* make no call to the registry and leave it as it was; and a goprobes or
\* kprobes call repeated for the same Tracer creates a new handle at every
\* attachment point of the first.
C19_RegistryOnlyGrows ==
    /\ \A k \in DOMAIN hist :
          /\ hist[k].libs0 \subseteq hist[k].libs1
          /\ hist[k].libs1 \subseteq instrumentedLibs[hist[k].p]
          /\ hist[k].op \in {"goprobes", "kprobes", "sockfilters"} =>
                /\ hist[k].libs1 = hist[k].libs0
                /\ \A j \in DOMAIN hist[k].ev :
                      hist[k].ev[j].t \notin {"AlreadyInstrumentedLib",
                                              "RecordInstrumentedLib"}
    /\ \A k, q \in DOMAIN hist :
          Repeated(k, q) =>
             /\ Attached(hist[q]) = Attached(hist[k])
             /\ Cardinality(Created(hist[q])) = Cardinality(Created(hist[k]))
             /\ Created(hist[q]) \cap Created(hist[k]) = {}

C19_Witness ==
    \E k, q \in DOMAIN hist :
        /\ Repeated(k, q)
        /\ hist[k].op = "goprobes"
        /\ Cardinality(Created(hist[k])) = 2
        /\ Cardinality(Created(hist[q])) = 2
        /\ Len(links) = 4

====
